---- MODULE Spec2Model ----
(***************************************************************************)
(* podscript: the chunked-transcript streaming pipeline.                   *)
(*                                                                         *)
(*   - splitText / calcWordsFromTokens   (YouTubeTranscriber, chunking)    *)
(*   - YouTubeTranscriber.Transcribe     (the consumer loop)               *)
(*   - the five CompleteStream adapters  (producer goroutines, llms.go)    *)
(*   - Command.RunE and callChatGPTAPIWithBackoff (cmd/ytt/ytt.go)         *)
(*   - NewLLMClient, its callers and the blocking Complete of each adapter *)
(*                                                                         *)
(* A Go string is a sequence of one-character strings.  The two channels   *)
(* of a CompleteStream call are an unbuffered chunk channel (a send is a   *)
(* rendezvous with the consumer's receive) and an error channel of         *)
(* capacity 1.                                                             *)
(***************************************************************************)
EXTENDS Integers, Sequences, FiniteSets, TLC

\* ---------------------------------------------------------------- bounds
MaxTextLen == 6          \* longest transcript text of the chunking specification
MaxTokens == 4           \* largest scaled token limit (word budgets 0..3)
MaxPipelineWords == 2    \* most transcript words in a pipeline run
MaxEvents == 2           \* most events the backend delivers during a run
MaxElapsedTime == 4      \* backOff.MaxElapsedTime (10 minutes), in ticks of the shortest wait
MaxInterval == 2         \* longest wait between two attempts, in ticks
MaxThrottles == 3        \* most rate-limit answers before the backend's final answer
MaxSSELen == 4           \* longest text passed to handleYTT's callback

Alphabet == {"a", "b", " "}

\* ------------------------------------------------------ model registry
OpenAI == "openai"
Claude == "claude"
Groq == "groq"
Gemini == "gemini"
Bedrock == "bedrock"

Providers == {OpenAI, Claude, Groq, Gemini, Bedrock}

\* output token limits for each model (both revisions of the table)
modelTokenLimits ==
    [m \in {"gpt-4o", "gpt-4o-mini", "claude-3-5-sonnet-20241022",
            "claude-3-5-haiku-20241022", "llama-3.3-70b-versatile",
            "llama-3.1-8b-instant", "gemini-2.0-flash",
            "anthropic.claude-3-5-sonnet-20241022-v2:0",
            "anthropic.claude-3-5-haiku-20241022-v1:0"} |->
        CASE m \in {"gpt-4o", "gpt-4o-mini"} -> 16384
          [] m \in {"claude-3-5-sonnet-20241022", "claude-3-5-haiku-20241022",
                    "llama-3.1-8b-instant"} -> 8192
          [] m \in {"llama-3.3-70b-versatile", "gemini-2.0-flash"} -> 32768
          [] OTHER -> 4096]

TableLimits == {modelTokenLimits[m] : m \in DOMAIN modelTokenLimits}

\* ------------------------------------------------------------- strings
IsSpace(c) == c \in {" ", "\t", "\n", "\r"}

\* strings.Fields: the maximal runs of non-space characters, in order
RECURSIVE FieldsFrom(_, _, _, _)
FieldsFrom(s, i, cur, acc) ==
    IF i > Len(s)
    THEN IF cur = <<>> THEN acc ELSE Append(acc, cur)
    ELSE IF IsSpace(s[i])
         THEN FieldsFrom(s, i + 1, <<>>, IF cur = <<>> THEN acc ELSE Append(acc, cur))
         ELSE FieldsFrom(s, i + 1, Append(cur, s[i]), acc)

\* strings.Split(s, " ") on the empty string: one empty word
Fields_Split(s) == IF s = <<>> THEN << <<>> >> ELSE FieldsFrom(s, 1, <<>>, <<>>)

Fields(s) == FieldsFrom(s, 1, <<>>, <<>>)

\* strings.Join(elems, sep)
RECURSIVE Join(_, _)
Join(elems, sep) ==
    IF elems = <<>> THEN <<>>
    ELSE IF Len(elems) = 1 THEN elems[1]
    ELSE elems[1] \o sep \o Join(Tail(elems), sep)

\* all strings over Alphabet of length at most n
StringsUpTo(n) == UNION {[1..k -> Alphabet] : k \in 0..n}

\* k copies of the word "a" separated by single spaces
RECURSIVE WordsText(_)
WordsText(k) == IF k = 0 THEN <<>>
                ELSE IF k = 1 THEN <<"a">>
                ELSE WordsText(k - 1) \o <<" ", "a">>

\* the nine-word transcript "the quick brown fox jumps over the lazy dog"
FoxWords ==
    << <<"t", "h", "e">>, <<"q", "u", "i", "c", "k">>, <<"b", "r", "o", "w", "n">>,
       <<"f", "o", "x">>, <<"j", "u", "m", "p", "s">>, <<"o", "v", "e", "r">>,
       <<"t", "h", "e">>, <<"l", "a", "z", "y">>, <<"d", "o", "g">> >>

FoxText == Join(FoxWords, <<" ">>)

\* ------------------------------------------------------------ chunking
\* a ratio of 0.25 words per token for 0.75
calcWordsFromTokens_Quarter(tokens) == tokens \div 4

\* int(float64(tokens) * 0.75): exact for the token counts of interest
calcWordsFromTokens(tokens) == (tokens * 3) \div 4

\* the loop of splitText; i is the 1-based index of the next word, so the
\* source's `i > 0` (0-based) is `i > 1` here
\* the loop with `currentWordCount > maxWords` for `>=`
RECURSIVE splitLoop_OffByOne(_, _, _, _, _, _)
splitLoop_OffByOne(words, i, currentChunk, currentWordCount, chunksAcc, maxWords) ==
    IF i > Len(words)
    THEN IF Len(currentChunk) > 0 THEN Append(chunksAcc, currentChunk) ELSE chunksAcc
    ELSE LET sep   == IF i > 1 THEN currentChunk \o <<" ">> ELSE currentChunk
             built == sep \o words[i]
             count == currentWordCount + 1
         IN  IF count > maxWords
             THEN splitLoop_OffByOne(words, i + 1, <<>>, 0, Append(chunksAcc, built), maxWords)
             ELSE splitLoop_OffByOne(words, i + 1, built, count, chunksAcc, maxWords)

RECURSIVE splitLoop(_, _, _, _, _, _)
splitLoop(words, i, currentChunk, currentWordCount, chunksAcc, maxWords) ==
    IF i > Len(words)
    THEN IF Len(currentChunk) > 0 THEN Append(chunksAcc, currentChunk) ELSE chunksAcc
    ELSE LET sep   == IF i > 1 THEN currentChunk \o <<" ">> ELSE currentChunk
             built == sep \o words[i]
             count == currentWordCount + 1
         IN  IF count >= maxWords
             THEN splitLoop(words, i + 1, <<>>, 0, Append(chunksAcc, built), maxWords)
             ELSE splitLoop(words, i + 1, built, count, chunksAcc, maxWords)

\* a word budget of zero taken as no budget at all
splitText_ZeroUnbounded(txt, limit) ==
    LET maxWords == calcWordsFromTokens(limit)
    IN  splitLoop(Fields(txt), 1, <<>>, 0, <<>>,
                  IF maxWords = 0 THEN Len(txt) + 1 ELSE maxWords)

\* lines 106-133; limit is modelTokenLimits[yt.model], zero for a model
\* that is not in the table
splitText(txt, limit) ==
    splitLoop(Fields(txt), 1, <<>>, 0, <<>>, calcWordsFromTokens(limit))

\* ------------------------------------------------------------- prompts
\* A prompt is the sequence of its parts: the literal text of the program
\* and the values interpolated into it.
Lit(name) == [seg |-> "lit", val |-> name]
Txt(t) == [seg |-> "txt", val |-> t]

\* fmt.Sprintf(userPrompt, chunk): the template, the chunk between the
\* <captions> tags
userPrompt(chunk) ==
    <<Lit("userPrompt: captions"), Txt(chunk), Lit("userPrompt: steps")>>

\* the CompletionRequest Transcribe builds for a chunk; SystemPrompt is left
\* at its zero value
TranscribeRequest(chunk) ==
    [SystemPrompt |-> <<>>, UserPrompt |-> userPrompt(chunk)]

\* the ChatCompletionRequest of callChatGPTAPIWithBackoff: a system message
\* that ends with contextTxt, a user message of prompt + "\n\n" + text
ChatCompletionRequest(contextTxt, txt) ==
    [SystemPrompt |-> <<Lit("transcriptionist"), Txt(contextTxt)>>,
     UserPrompt   |-> <<Lit("prompt"), Lit("\n\n"), Txt(txt)>>]

\* the values interpolated into the prompts of a request
Embedded(req) ==
    {req.SystemPrompt[k].val :
        k \in {j \in DOMAIN req.SystemPrompt : req.SystemPrompt[j].seg = "txt"}}
    \cup
    {req.UserPrompt[k].val :
        k \in {j \in DOMAIN req.UserPrompt : req.UserPrompt[j].seg = "txt"}}

\* ---------------------------------------- chunkTranscript (cmd/ytt/ytt.go)
maxWordsPerChunk == 3000

\* the scanner loop of chunkTranscript: every word is written with a
\* trailing space
RECURSIVE chunkLoop(_, _, _, _, _, _)
chunkLoop(words, i, chunkBuilder, wordCount, chunksAcc, maxWords) ==
    IF i > Len(words)
    THEN IF Len(chunkBuilder) > 0 THEN Append(chunksAcc, chunkBuilder) ELSE chunksAcc
    ELSE LET built == chunkBuilder \o words[i] \o <<" ">>
             count == wordCount + 1
         IN  IF count >= maxWords
             THEN chunkLoop(words, i + 1, <<>>, 0, Append(chunksAcc, built), maxWords)
             ELSE chunkLoop(words, i + 1, built, count, chunksAcc, maxWords)

\* bufio.ScanWords yields the words strings.Fields yields
chunkTranscript(transcript, maxWords) ==
    chunkLoop(Fields(transcript), 1, <<>>, 0, <<>>, maxWords)

\* ------------------------------------------- backend answers and retries
\* what client.CreateChatCompletion returns: a response with some choices,
\* an *openai.APIError with its HTTP status, or another error
Answer(kind, status, overloaded, choices) ==
    [kind |-> kind, status |-> status, overloaded |-> overloaded, choices |-> choices]

Completed   == Answer("ok", 200, FALSE, 1)
NoChoices   == Answer("ok", 200, FALSE, 0)
RateLimited == Answer("api", 429, FALSE, 0)
Overloaded  == Answer("api", 503, TRUE, 0)
ServerError == Answer("api", 500, FALSE, 0)
Transport   == Answer("transport", 0, FALSE, 0)

Answers == {Completed, NoChoices, RateLimited, Overloaded, ServerError, Transport}

\* the backend's behaviour during one call: `throttles` rate-limit answers,
\* then `final` for every later attempt
Scripts ==
    {sc \in [throttles : 0..MaxThrottles, final : Answers] :
        sc.final = RateLimited => sc.throttles = 0}

NoScript == [throttles |-> 0, final |-> Completed]

AnswerAt(sc, n) == IF n <= sc.throttles THEN RateLimited ELSE sc.final

\* the operation returns every error as permanent
IsRetryable_Never(r) == FALSE

\* the operation passed to backoff.Retry returns the error as it is (to be
\* retried) when it is an *openai.APIError with status 429, and wraps every
\* other error in backoff.Permanent
IsRetryable(r) == r.kind = "api" /\ r.status = 429

\* --------------------------------------------------------------- state
VARIABLES
    provider,      \* the adapter behind yt.client
    text,          \* the transcript text the caption source returns
    tokenLimit,    \* modelTokenLimits[yt.model] (0 when the model is not in the table)
    chunks,        \* Transcribe's `chunks`
    pc,            \* Transcribe's position
    idx,           \* 1-based index of the chunk of the current loop iteration
    result,        \* Transcribe's return value
    ctxCancelled,  \* the context passed to Transcribe has been cancelled
    prod,          \* position of the CompleteStream goroutine
    pending,       \* the chunk of the goroutine's blocked `chunkChan <-`
    errChan,       \* buffer of the error channel (capacity 1)
    nEvents,       \* events the backend has delivered during the run
    calls,         \* history: chunk indices CompleteStream was called for
    emitted,       \* history: chunks the goroutines offered on chunkChan
    sinkLog,       \* history: (text, done) pairs passed to the callback
    errLog,        \* history: errors sent on an error channel
    failedCalls,   \* history: calls whose stream broke after it had started
    cancelInfo,    \* history: where the run was when the context was cancelled
    errRead,       \* history: where the run was when Transcribe read an error
    lastEvent,     \* the typed stream event the goroutine read last (Claude, Bedrock)
    requests,      \* history: the completion requests built, one per call
    rpc,           \* position of Command.RunE and of callChatGPTAPIWithBackoff
    script,        \* what the backend answers to the attempts of the current call
    attempts,      \* attempts of the current callChatGPTAPIWithBackoff call
    elapsed,       \* ticks since backoff.Retry reset the backoff
    callLog,       \* history: the callChatGPTAPIWithBackoff calls that returned
    entry,         \* which caller constructs the client
    model,         \* the model the caller asks for
    config,        \* the credentials the caller holds
    fpc,           \* position of the caller
    client,        \* the adapter NewLLMClient returned
    ferr,          \* the error the construction returned
    issued,        \* history: backend calls issued through the client
    cres,          \* what the blocking Complete call returned
    wire           \* the bytes handleYTT's callback wrote to the response

vars == <<provider, text, tokenLimit, chunks, pc, idx, result, ctxCancelled,
          prod, pending, errChan, nEvents, calls, emitted, sinkLog, errLog,
          failedCalls, cancelInfo, errRead, lastEvent, requests, rpc, script, attempts,
          elapsed, callLog, entry, model, config, fpc, client, ferr, issued,
          cres, wire>>

inputVars == <<provider, text, tokenLimit>>
retryVars == <<rpc, script, attempts, elapsed, callLog>>
facadeVars == <<entry, model, config, fpc, client, ferr, issued, cres>>
auxVars   == <<retryVars, facadeVars, wire>>
consVars  == <<chunks, pc, idx, result, calls, sinkLog, errRead, requests>>
prodVars  == <<prod, pending, errChan, nEvents, emitted, errLog, failedCalls,
               lastEvent>>
ctxVars   == <<ctxCancelled, cancelInfo>>

None == [kind |-> "none"]
Nil  == [kind |-> "nil"]
NoChunk == [text |-> <<>>, done |-> FALSE]

\* the credentials of a Config; a credential is empty or set
Credentials == {"OpenAIAPIKey", "AnthropicAPIKey", "GroqAPIKey", "GeminiAPIKey",
                "AWSRegion", "AWSAccessKeyID", "AWSSecretAccessKey",
                "AWSSessionToken"}
Configs == [Credentials -> {"", "set"}]

\* callChatGPTAPIWithBackoff has not been called
RetryIdle ==
    /\ rpc = "idle"
    /\ script = NoScript
    /\ attempts = <<>>
    /\ elapsed = 0
    /\ callLog = <<>>

\* no client has been asked for
FacadeIdle ==
    /\ fpc = "idle"
    /\ client = "none"
    /\ ferr = Nil
    /\ issued = <<>>
    /\ cres = None

InitPipeline(texts, limits) ==
    /\ text \in texts
    /\ tokenLimit \in limits
    /\ chunks = <<>>
    /\ pc = "idle"
    /\ idx = 1
    /\ result = None
    /\ ctxCancelled = FALSE
    /\ prod = "none"
    /\ pending = NoChunk
    /\ errChan = <<>>
    /\ nEvents = 0
    /\ calls = <<>>
    /\ emitted = <<>>
    /\ sinkLog = <<>>
    /\ errLog = <<>>
    /\ failedCalls = {}
    /\ cancelInfo = None
    /\ errRead = None
    /\ lastEvent = None
    /\ requests = <<>>
    /\ wire = <<>>

\* a pipeline run: the client is built, its credentials are set
InitWith(texts, limits) ==
    /\ provider \in Providers
    /\ InitPipeline(texts, limits)
    /\ RetryIdle
    /\ FacadeIdle
    /\ entry = "run"
    /\ model = "gpt-4o"
    /\ config = [c \in Credentials |-> "set"]

PipelineTexts == {WordsText(k) : k \in 0..MaxPipelineWords}
PipelineLimits == {l \in 0..MaxTokens : calcWordsFromTokens(l) = 1}

Init == InitWith(PipelineTexts, PipelineLimits)

\* ------------------------------------------------ Transcribe (consumer)
\* a failed fetch returning nil
Transcribe_Start_NilOnFailure ==
    /\ pc = "idle"
    /\ \/ /\ pc' = "returned"
          /\ result' = Nil
          /\ UNCHANGED chunks
       \/ /\ chunks' = splitText(text, tokenLimit)
          /\ pc' = "loop"
          /\ UNCHANGED result
    /\ UNCHANGED <<inputVars, auxVars, idx, calls, requests, sinkLog, errRead, prodVars, ctxVars>>

\* lines 50-79: fetch the captions, join them, split the text
Transcribe_Start ==
    /\ pc = "idle"
    /\ \/ /\ pc' = "returned"
          /\ result' = [kind |-> "source", cause |-> "failed to fetch transcript"]
          /\ UNCHANGED chunks
       \/ /\ chunks' = splitText(text, tokenLimit)
          /\ pc' = "loop"
          /\ UNCHANGED result
    /\ UNCHANGED <<inputVars, auxVars, idx, calls, requests, sinkLog, errRead, prodVars, ctxVars>>

\* where the goroutine of each adapter starts: Groq and Bedrock open the
\* stream with a call that can fail, the others get a stream object at once
StartOf(p) == IF p \in {Groq, Bedrock} THEN "open" ELSE "next"

\* the loop leaving out the last chunk
Transcribe_Call_OffByOne ==
    /\ pc = "loop"
    /\ IF idx < Len(chunks)
       THEN /\ calls' = Append(calls, idx)
            /\ requests' = Append(requests, TranscribeRequest(chunks[idx]))
            /\ prod' = StartOf(provider)
            /\ pending' = NoChunk
            /\ errChan' = <<>>
            /\ pc' = "recv"
            /\ UNCHANGED <<result, nEvents>>
       ELSE /\ pc' = "returned"
            /\ result' = Nil
            /\ UNCHANGED <<calls, requests, prod, pending, errChan, nEvents>>
    /\ UNCHANGED <<inputVars, auxVars, chunks, idx, sinkLog, errRead, emitted, lastEvent, errLog,
                   failedCalls, ctxVars>>

\* lines 81-85 (and the loop exit, line 98)
Transcribe_Call ==
    /\ pc = "loop"
    /\ IF idx <= Len(chunks)
       THEN /\ calls' = Append(calls, idx)
            /\ requests' = Append(requests, TranscribeRequest(chunks[idx]))
            /\ prod' = StartOf(provider)
            /\ pending' = NoChunk
            /\ errChan' = <<>>
            /\ pc' = "recv"
            /\ UNCHANGED <<result, nEvents>>
       ELSE /\ pc' = "returned"
            /\ result' = Nil
            /\ UNCHANGED <<calls, requests, prod, pending, errChan, nEvents>>
    /\ UNCHANGED <<inputVars, auxVars, chunks, idx, sinkLog, errRead, emitted, lastEvent, errLog,
                   failedCalls, ctxVars>>

\* the error of the callback being noted while the loop goes on
callbackError_Continue ==
    /\ pc' = pc
    /\ result' = [kind |-> "callback", cause |-> "sink error"]

\* lines 88-90: `return fmt.Errorf("callback error: %w", err)`
callbackError ==
    /\ pc' = "returned"
    /\ result' = [kind |-> "callback", cause |-> "sink error"]

\* the loop not forwarding a chunk whose text is empty
Transcribe_Recv_DropEmpty ==
    /\ pc = "recv"
    /\ prod = "send"
    /\ sinkLog' = IF pending.text = <<>> /\ ~pending.done
                  THEN sinkLog
                  ELSE Append(sinkLog, [text |-> pending.text, done |-> pending.done])
    /\ prod' = IF pending.done THEN "exit" ELSE "next"
    /\ pending' = NoChunk
    /\ \/ UNCHANGED <<pc, result>>
       \/ /\ pc' = "returned"
          /\ result' = [kind |-> "callback", cause |-> "sink error"]
    /\ UNCHANGED <<inputVars, auxVars, chunks, idx, calls, requests, errRead, errChan, nEvents,
                   emitted, lastEvent, errLog, failedCalls, ctxVars>>

\* lines 87-91: one iteration of `for resp := range respCh`, the receive
\* completing the goroutine's blocked send, then the callback
Transcribe_Recv ==
    /\ pc = "recv"
    /\ prod = "send"
    /\ sinkLog' = Append(sinkLog, [text |-> pending.text, done |-> pending.done])
    /\ prod' = IF pending.done THEN "exit" ELSE "next"
    /\ pending' = NoChunk
    /\ \/ UNCHANGED <<pc, result>>
       \/ callbackError
    /\ UNCHANGED <<inputVars, auxVars, chunks, idx, calls, requests, errRead, errChan, nEvents,
                   emitted, lastEvent, errLog, failedCalls, ctxVars>>

\* the range loop leaving at the done chunk, before chunkChan is closed
Transcribe_RangeEnd_OnDone ==
    /\ pc = "recv"
    /\ prod \in {"exit", "errClosed", "closed"}
    /\ pc' = "readErr"
    /\ UNCHANGED <<inputVars, auxVars, chunks, idx, result, calls, requests, sinkLog, errRead,
                   prodVars, ctxVars>>

\* line 87: the range loop ends when chunkChan is closed
Transcribe_RangeEnd ==
    /\ pc = "recv"
    /\ prod = "closed"
    /\ pc' = "readErr"
    /\ UNCHANGED <<inputVars, auxVars, chunks, idx, result, calls, requests, sinkLog, errRead,
                   prodVars, ctxVars>>

\* the error read skipping the failed chunk and going on
Transcribe_ReadErr_Skip ==
    /\ pc = "readErr"
    /\ idx' = idx + 1
    /\ pc' = "loop"
    /\ errChan' = <<>>
    /\ UNCHANGED <<result, errRead>>
    /\ UNCHANGED <<inputVars, auxVars, chunks, calls, requests, sinkLog, prod, pending, nEvents,
                   emitted, lastEvent, errLog, failedCalls, ctxVars>>

\* lines 93-96: read the (closed, possibly holding one error) error channel
Transcribe_ReadErr ==
    /\ pc = "readErr"
    /\ IF errChan # <<>>
       THEN /\ result' = [kind |-> "llm", cause |-> Head(errChan)]
            /\ errChan' = Tail(errChan)
            /\ errRead' = [kind |-> "read", chunk |-> idx, err |-> Head(errChan),
                           sinkLen |-> Len(sinkLog), nCalls |-> Len(calls)]
            /\ pc' = "returned"
            /\ UNCHANGED idx
       ELSE /\ idx' = idx + 1
            /\ pc' = "loop"
            /\ UNCHANGED <<result, errChan, errRead>>
    /\ UNCHANGED <<inputVars, auxVars, chunks, calls, requests, sinkLog, prod, pending, nEvents,
                   emitted, lastEvent, errLog, failedCalls, ctxVars>>

\* ------------------------------------- CompleteStream (producer goroutines)
\* `chunkChan <- CompletionChunk{Text: t, Done: false}`
ProdSend(t) ==
    /\ prod' = "send"
    /\ pending' = [text |-> t, done |-> FALSE]
    /\ emitted' = Append(emitted, [call |-> idx, text |-> t, done |-> FALSE])
    /\ UNCHANGED <<errChan, errLog>>

\* an event that yields no chunk
ProdSkip ==
    /\ prod' = "next"
    /\ UNCHANGED <<pending, emitted, errChan, errLog>>

\* the goroutine returning without the final done chunk
ProdDone_Dropped ==
    /\ prod' = "exit"
    /\ UNCHANGED <<pending, emitted, errChan, errLog>>

\* `chunkChan <- CompletionChunk{Done: true}`
ProdDone ==
    /\ prod' = "send"
    /\ pending' = [text |-> <<>>, done |-> TRUE]
    /\ emitted' = Append(emitted, [call |-> idx, text |-> <<>>, done |-> TRUE])
    /\ UNCHANGED <<errChan, errLog>>

\* `errChan <- err; return`
ProdFail(e) ==
    /\ errChan' = Append(errChan, e)
    /\ errLog' = Append(errLog, [call |-> idx, err |-> e])
    /\ prod' = "exit"
    /\ UNCHANGED <<pending, emitted>>

\* the k-th text delta of the stream of call c
Delta(c, k) == <<c, k>>

ProdFrame == UNCHANGED <<inputVars, auxVars, consVars, ctxVars>>

\* What adapter p's goroutine does when the SDK call it is blocked in returns
\* because ctx is cancelled.  OpenAI, Claude and Gemini get the context's
\* error from the stream and send it on errChan; Bedrock gets it from
\* invokeModelStream, or, once the stream is open, sees the event channel
\* closed and falls out of the range loop; Groq's call takes no context.
ctxDone(p) ==
    /\ ctxCancelled
    /\ provider = p
    /\ CASE p \in {OpenAI, Claude, Gemini} ->
               prod = "next" /\ ProdFail("context canceled")
         [] p = Bedrock ->
               \/ prod = "open" /\ ProdFail("context canceled")
               \/ prod = "next" /\ ProdDone
         [] OTHER -> FALSE
    /\ UNCHANGED <<nEvents, failedCalls, lastEvent>>
    /\ ProdFrame

\* the stream broke after it had started
Broke == failedCalls' = failedCalls \cup {Len(calls)}

OpenAIClient_CompleteStream ==
    /\ provider = OpenAI
    /\ prod = "next"
    /\ \/ /\ nEvents < MaxEvents
          /\ nEvents' = nEvents + 1
          /\ \/ ProdSend(Delta(idx, nEvents + 1))
             \/ ProdSend(<<>>)
             \/ ProdSkip
          /\ UNCHANGED failedCalls
       \/ /\ ProdDone
          /\ UNCHANGED <<nEvents, failedCalls>>
       \/ /\ ProdFail("stream error")
          /\ Broke
          /\ UNCHANGED nEvents
    /\ UNCHANGED lastEvent
    /\ ProdFrame

\* the event of the current call the goroutine has just read
Event(type) == [call |-> idx, type |-> type]

\* the types of the events a Claude-style stream carries: the text delta of
\* a content block, and the others (message_start, content_block_start,
\* message_delta, ...), of which message_start stands for all
TextDelta == "content_block_delta"
OtherEvents == {"message_start"}

\* llms.go 642-668: the switch on the event's delta has the one case
\* ContentBlockDeltaEventDelta, which sends the text if it is not empty;
\* an event of any other type falls through the switch
ClaudeClient_CompleteStream ==
    /\ provider = Claude
    /\ prod = "next"
    /\ \/ /\ nEvents < MaxEvents
          /\ nEvents' = nEvents + 1
          /\ \/ /\ lastEvent' = Event(TextDelta)
                /\ \/ ProdSend(Delta(idx, nEvents + 1))
                   \/ ProdSkip
             \/ /\ lastEvent' \in {Event(t) : t \in OtherEvents}
                /\ ProdSkip
          /\ UNCHANGED failedCalls
       \/ /\ ProdDone
          /\ UNCHANGED <<nEvents, failedCalls, lastEvent>>
       \/ /\ ProdFail("stream error")
          /\ Broke
          /\ UNCHANGED <<nEvents, lastEvent>>
    /\ ProdFrame

GroqClient_CompleteStream ==
    /\ provider = Groq
    /\ \/ /\ prod = "open"
          /\ \/ ProdFail("request error")
             \/ ProdSkip
          /\ UNCHANGED <<nEvents, failedCalls>>
       \/ /\ prod = "next"
          /\ \/ /\ nEvents < MaxEvents
                /\ nEvents' = nEvents + 1
                /\ \/ ProdSend(Delta(idx, nEvents + 1))
                   \/ ProdSend(<<>>)
                   \/ ProdSkip
                /\ UNCHANGED failedCalls
             \/ /\ ProdDone
                /\ UNCHANGED <<nEvents, failedCalls>>
             \/ /\ ProdDone
                /\ Broke
                /\ UNCHANGED nEvents
    /\ UNCHANGED lastEvent
    /\ ProdFrame

GeminiClient_CompleteStream ==
    /\ provider = Gemini
    /\ prod = "next"
    /\ \/ /\ nEvents < MaxEvents
          /\ nEvents' = nEvents + 1
          /\ \/ ProdSend(Delta(idx, nEvents + 1))
             \/ ProdSkip
          /\ UNCHANGED failedCalls
       \/ /\ ProdDone
          /\ UNCHANGED <<nEvents, failedCalls>>
       \/ /\ ProdFail("stream error")
          /\ Broke
          /\ UNCHANGED nEvents
    /\ UNCHANGED lastEvent
    /\ ProdFrame

\* what the Bedrock adapter answers each event it does not decode into a
\* chunk payload with
BedrockEventErrors ==
    [undecodable |-> "failed to decode chunk",
     unknown_union_member |-> "unknown response stream event",
     unknown_event_type |-> "received unknown event type"]

\* llms.go 835-879: a chunk event is decoded; a content_block_delta payload
\* with text is sent, any other payload falls through; an event that is no
\* chunk, or whose payload does not decode, is an error
BedrockClient_CompleteStream ==
    /\ provider = Bedrock
    /\ \/ /\ prod = "open"
          /\ \/ ProdFail("failed to invoke model")
             \/ ProdSkip
          /\ UNCHANGED <<nEvents, failedCalls, lastEvent>>
       \/ /\ prod = "next"
          /\ \/ /\ nEvents < MaxEvents
                /\ nEvents' = nEvents + 1
                /\ \/ /\ lastEvent' = Event(TextDelta)
                      /\ \/ ProdSend(Delta(idx, nEvents + 1))
                         \/ ProdSkip
                      /\ UNCHANGED failedCalls
                   \/ /\ lastEvent' \in {Event(t) : t \in OtherEvents}
                      /\ ProdSkip
                      /\ UNCHANGED failedCalls
                   \/ /\ \E t \in DOMAIN BedrockEventErrors :
                            /\ lastEvent' = Event(t)
                            /\ ProdFail(BedrockEventErrors[t])
                      /\ Broke
             \/ /\ ProdDone
                /\ UNCHANGED <<nEvents, failedCalls, lastEvent>>
             \/ /\ ProdDone
                /\ Broke
                /\ UNCHANGED <<nEvents, lastEvent>>
    /\ ProdFrame

\* the goroutine leaving chunkChan open
deferClose_ErrChanOnly ==
    /\ prod = "exit"
    /\ prod' = "errClosed"
    /\ UNCHANGED <<pending, errChan, nEvents, emitted, lastEvent, errLog, failedCalls>>
    /\ ProdFrame

\* the deferred calls of every adapter's goroutine, which run in the reverse
\* order of their defer statements: close(errChan), then close(chunkChan)
deferClose ==
    /\ \/ prod = "exit" /\ prod' = "errClosed"
       \/ prod = "errClosed" /\ prod' = "closed"
    /\ UNCHANGED <<pending, errChan, nEvents, emitted, lastEvent, errLog, failedCalls>>
    /\ ProdFrame

\* ---------------------------------------------------------- environment
\* done=false chunks the callback has received from the current call
RECURSIVE CountPartials(_, _)
CountPartials(log, c) ==
    IF log = <<>> THEN 0
    ELSE (IF Head(log).call = c /\ ~Head(log).done THEN 1 ELSE 0)
         + CountPartials(Tail(log), c)

\* the caller cancels the context passed to Transcribe
Cancel ==
    /\ ~ctxCancelled
    /\ pc # "returned"
    /\ ctxCancelled' = TRUE
    /\ cancelInfo' = [kind |-> "cancel", pc |-> pc, chunk |-> idx, prod |-> prod,
                      doneOffered |-> (prod = "send" /\ pending.done),
                      partials |-> IF pc = "recv"
                                   THEN CountPartials(emitted, idx)
                                        - (IF prod = "send" /\ ~pending.done THEN 1 ELSE 0)
                                   ELSE 0]
    /\ UNCHANGED <<inputVars, auxVars, consVars, prodVars>>

Next ==
    \/ Transcribe_Start
    \/ Transcribe_Call
    \/ Transcribe_Recv
    \/ Transcribe_RangeEnd
    \/ Transcribe_ReadErr
    \/ OpenAIClient_CompleteStream
    \/ ctxDone(OpenAI)
    \/ ClaudeClient_CompleteStream
    \/ ctxDone(Claude)
    \/ GroqClient_CompleteStream
    \/ GeminiClient_CompleteStream
    \/ ctxDone(Gemini)
    \/ BedrockClient_CompleteStream
    \/ ctxDone(Bedrock)
    \/ deferClose
    \/ Cancel

Spec == Init /\ [][Next]_vars

\* ------------------------- Command.RunE and callChatGPTAPIWithBackoff
RetryFrame ==
    UNCHANGED <<inputVars, facadeVars, prodVars, ctxVars, pc, calls, sinkLog, errRead, wire>>

\* what can fail between the API key check and the chunking
SetupFailures == {"path not found", "failed to get video info",
                  "failed to get transcript info", "failed to write raw transcript"}

\* the word budget of a chunk: the program's, and a budget of one word that
\* makes the short transcripts span several chunks
ChunkBudgets == {1, maxWordsPerChunk}

\* lines 110-161: the API key and the path, the transcript, its chunks;
\* chunks[0] of an empty chunk list is an index out of range
RunE_Start ==
    /\ rpc = "idle"
    /\ IF config["OpenAIAPIKey"] = ""
       THEN /\ rpc' = "returned"
            /\ result' = [kind |-> "setup", cause |-> "OpenAI API key not found"]
            /\ UNCHANGED chunks
       ELSE \/ \E c \in SetupFailures :
                 /\ rpc' = "returned"
                 /\ result' = [kind |-> "setup", cause |-> c]
                 /\ UNCHANGED chunks
            \/ \E m \in ChunkBudgets :
                 LET cs == chunkTranscript(text, m)
                 IN  /\ chunks' = cs
                     /\ IF cs = <<>>
                        THEN /\ rpc' = "returned"
                             /\ result' = [kind |-> "panic", cause |-> "index out of range"]
                        ELSE /\ rpc' = "loop"
                             /\ UNCHANGED result
    /\ UNCHANGED <<idx, requests, script, attempts, elapsed, callLog>>
    /\ RetryFrame

\* lines 164-165 and 28-47: the next chunk's request, with chunks[0] as
\* contextTxt, and a fresh backoff; lines 177-181 after the last chunk
RunE_Call ==
    /\ rpc = "loop"
    /\ IF idx <= Len(chunks)
       THEN /\ requests' = Append(requests, ChatCompletionRequest(chunks[1], chunks[idx]))
            /\ script' \in Scripts
            /\ attempts' = <<>>
            /\ elapsed' = 0
            /\ rpc' = "attempt"
            /\ UNCHANGED result
       ELSE /\ rpc' = "returned"
            /\ result' \in {Nil, [kind |-> "write", cause |-> "failed to write cleaned transcript"]}
            /\ UNCHANGED <<requests, script, attempts, elapsed>>
    /\ UNCHANGED <<chunks, idx, callLog>>
    /\ RetryFrame

\* the record of a call that returned
Returned(att, err, exhausted) ==
    [chunk |-> idx, script |-> script, attempts |-> att, err |-> err,
     exhausted |-> exhausted]

ChunkFailed(err) == [kind |-> "chunk", cause |-> err]

NoChoicesError == [kind |-> "error", cause |-> "no choices returned from API"]

\* lines 49-66 and 68-76: one run of the operation, which takes up to a
\* tick.  A response ends the retry loop: without choices the call returns
\* an error, with choices RunE appends the cleaned chunk and goes on.  A
\* rate-limit error is handed to the backoff, any other error is permanent.
Retry_Operation ==
    /\ rpc = "attempt"
    /\ \E d \in 0..1 :
          LET r   == AnswerAt(script, Len(attempts) + 1)
              att == Append(attempts, [resp |-> r, at |-> elapsed])
          IN  /\ attempts' = att
              /\ elapsed' = elapsed + d
              /\ IF r.kind = "ok"
                 THEN IF r.choices = 0
                      THEN /\ callLog' = Append(callLog,
                                   Returned(att, NoChoicesError, FALSE))
                           /\ result' = ChunkFailed(NoChoicesError)
                           /\ rpc' = "returned"
                           /\ UNCHANGED idx
                      ELSE /\ callLog' = Append(callLog, Returned(att, Nil, FALSE))
                           /\ idx' = idx + 1
                           /\ rpc' = "loop"
                           /\ UNCHANGED result
                 ELSE IF IsRetryable(r)
                      THEN /\ rpc' = "backoff"
                           /\ UNCHANGED <<callLog, idx, result>>
                      ELSE /\ callLog' = Append(callLog, Returned(att, r, FALSE))
                           /\ result' = ChunkFailed(r)
                           /\ rpc' = "returned"
                           /\ UNCHANGED idx
    /\ UNCHANGED <<chunks, requests, script>>
    /\ RetryFrame

\* the backoff stops only once the time budget is already used up
Retry_NextBackOff_Late ==
    /\ rpc = "backoff"
    /\ \E next \in 1..MaxInterval :
          IF elapsed > MaxElapsedTime
          THEN /\ callLog' = Append(callLog,
                       Returned(attempts, attempts[Len(attempts)].resp, TRUE))
               /\ result' = ChunkFailed(attempts[Len(attempts)].resp)
               /\ rpc' = "returned"
               /\ UNCHANGED elapsed
          ELSE /\ elapsed' = elapsed + next
               /\ rpc' = "attempt"
               /\ UNCHANGED <<callLog, result>>
    /\ UNCHANGED <<chunks, idx, requests, script, attempts>>
    /\ RetryFrame

\* backoff.Retry after a retryable error (line 49 with 44-45): the backoff
\* draws the next wait, which is at least one tick; when the wait would end
\* after MaxElapsedTime it stops and Retry returns the operation's last
\* error, else Retry sleeps and runs the operation again
Retry_NextBackOff ==
    /\ rpc = "backoff"
    /\ \E next \in 1..MaxInterval :
          IF elapsed + next > MaxElapsedTime
          THEN /\ callLog' = Append(callLog,
                       Returned(attempts, attempts[Len(attempts)].resp, TRUE))
               /\ result' = ChunkFailed(attempts[Len(attempts)].resp)
               /\ rpc' = "returned"
               /\ UNCHANGED elapsed
          ELSE /\ elapsed' = elapsed + next
               /\ rpc' = "attempt"
               /\ UNCHANGED <<callLog, result>>
    /\ UNCHANGED <<chunks, idx, requests, script, attempts>>
    /\ RetryFrame

\* the captions joined with a newline after each
RetryTexts == {<<>>} \cup {WordsText(k) \o <<"\n">> : k \in 1..MaxPipelineWords}

InitRetry ==
    /\ provider = OpenAI
    /\ InitPipeline(RetryTexts, {0})
    /\ RetryIdle
    /\ FacadeIdle
    /\ entry = "run"
    /\ model = "gpt-4o"
    /\ config \in {cf \in Configs : \A c \in Credentials \ {"OpenAIAPIKey"} : cf[c] = ""}

NextRetry ==
    \/ RunE_Start
    \/ RunE_Call
    \/ Retry_Operation
    \/ Retry_NextBackOff

SpecRetry == InitRetry /\ [][NextRetry]_vars

\* ------------------------------ NewLLMClient, its callers, Complete
Models == DOMAIN modelTokenLimits \cup {"other-model"}

\* a provider identifier none of the revisions knows
Unknown == "mistral"

\* getProviderForModel (ytt_web.go): "" for a model of no known provider
getProviderForModel(m) ==
    CASE m \in {"gpt-4o", "gpt-4o-mini"} -> OpenAI
      [] m \in {"claude-3-5-sonnet-20241022", "claude-3-5-haiku-20241022"} -> Claude
      [] m \in {"llama-3.3-70b-versatile", "llama-3.1-8b-instant"} -> Groq
      [] m \in {"anthropic.claude-3-5-sonnet-20241022-v2:0",
                "anthropic.claude-3-5-haiku-20241022-v1:0"} -> Bedrock
      [] OTHER -> ""

\* the provider of each case of getLLMClient's switch (ytt.go), "" for its
\* default case
cliProviderForModel(m) ==
    IF m = "gemini-2.0-flash" THEN Gemini ELSE getProviderForModel(m)

\* the credentials getLLMClient (ytt.go) requires in each case of its switch
cliRequired(p) ==
    CASE p = OpenAI -> {"OpenAIAPIKey"}
      [] p = Claude -> {"AnthropicAPIKey"}
      [] p = Groq   -> {"GroqAPIKey"}
      [] p = Gemini -> {"GeminiAPIKey"}
      [] p = Bedrock -> {"AWSRegion", "AWSAccessKeyID", "AWSSecretAccessKey",
                         "AWSSessionToken"}
      [] OTHER -> {}

\* the credentials handleYTT requires in each case of its switch: no case
\* for Gemini, no session token for Bedrock
webRequired(p) ==
    CASE p = OpenAI -> {"OpenAIAPIKey"}
      [] p = Claude -> {"AnthropicAPIKey"}
      [] p = Groq   -> {"GroqAPIKey"}
      [] p = Bedrock -> {"AWSRegion", "AWSAccessKeyID", "AWSSecretAccessKey"}
      [] OTHER -> {}

Unsupported(p) == [kind |-> "unsupported", cause |-> p]
Built(p) == [client |-> p, err |-> Nil]
Refused(e) == [client |-> "none", err |-> e]

\* NewLLMClient(provider, apiKey), llms.go 78-91: the outcomes of the
\* switch.  NewGeminiClient panics when the SDK client cannot be created.
NewLLMClient1(p) ==
    CASE p \in {OpenAI, Claude, Groq} -> {Built(p)}
      [] p = Gemini -> {Built(p), Refused([kind |-> "panic", cause |-> "failed to create Gemini client"])}
      [] OTHER -> {Refused(Unsupported(p))}

\* NewLLMClient(provider, config), llms.go 493-506: the outcomes of the
\* switch.  NewBedrockClient fails when the AWS config cannot be loaded.
NewLLMClient2(p) ==
    CASE p \in {OpenAI, Claude, Groq} -> {Built(p)}
      [] p = Bedrock -> {Built(p), Refused([kind |-> "provider", cause |-> "failed to load AWS config"])}
      [] OTHER -> {Refused(Unsupported(p))}

\* the NewLLMClient that getLLMClient of ytt.go 99-144 calls, with a Config
\* value and the five providers
NewLLMClient3(p) ==
    IF p \in Providers THEN {Built(p)} ELSE {Refused(Unsupported(p))}

FacadeFrame ==
    UNCHANGED <<inputVars, retryVars, consVars, prodVars, ctxVars, entry, model, config, wire>>

\* a direct call of the first revision's NewLLMClient, with the provider's
\* key of config as apiKey
NewLLMClient1_Call ==
    /\ entry = "NewLLMClient1"
    /\ fpc = "idle"
    /\ \E out \in NewLLMClient1(provider) :
          /\ client' = out.client
          /\ ferr' = out.err
          /\ fpc' = IF out.err = Nil THEN "built" ELSE "returned"
    /\ UNCHANGED <<issued, cres>>
    /\ FacadeFrame

\* a direct call of the second revision's NewLLMClient, with config
NewLLMClient2_Call ==
    /\ entry = "NewLLMClient2"
    /\ fpc = "idle"
    /\ \E out \in NewLLMClient2(provider) :
          /\ client' = out.client
          /\ ferr' = out.err
          /\ fpc' = IF out.err = Nil THEN "built" ELSE "returned"
    /\ UNCHANGED <<issued, cres>>
    /\ FacadeFrame

HTTPError(status, cause) == [kind |-> "http", status |-> status, cause |-> cause]

\* handleYTT, ytt_web.go 9-63: the parameters, the config file, the
\* model's provider, the provider's credentials, the client
handleYTT ==
    /\ entry = "handleYTT"
    /\ fpc = "idle"
    /\ LET p == getProviderForModel(model)
       IN  \/ /\ ferr' \in {HTTPError(400, "URL parameter is required"),
                             HTTPError(500, "Failed to read config")}
              /\ fpc' = "returned"
              /\ UNCHANGED client
           \/ IF p = ""
              THEN /\ ferr' = HTTPError(400, "Unsupported model")
                   /\ fpc' = "returned"
                   /\ UNCHANGED client
              ELSE IF \E c \in webRequired(p) : config[c] = ""
                   THEN /\ ferr' = [kind |-> "credential", status |-> 400, cause |-> p]
                        /\ fpc' = "returned"
                        /\ UNCHANGED client
                   ELSE \E out \in NewLLMClient2(p) :
                           IF out.err = Nil
                           THEN /\ client' = out.client
                                /\ ferr' = Nil
                                /\ fpc' = "built"
                           ELSE /\ ferr' = HTTPError(500, "Failed to initialize LLM client")
                                /\ fpc' = "returned"
                                /\ UNCHANGED client
    /\ UNCHANGED <<issued, cres>>
    /\ FacadeFrame

\* YTTCmd.getLLMClient, ytt.go 99-144
YTTCmd_getLLMClient ==
    /\ entry = "getLLMClient"
    /\ fpc = "idle"
    /\ LET p == cliProviderForModel(model)
       IN  IF p = ""
           THEN /\ ferr' = [kind |-> "unsupported model", cause |-> model]
                /\ fpc' = "returned"
                /\ UNCHANGED client
           ELSE IF \E c \in cliRequired(p) : config[c] = ""
                THEN /\ ferr' = [kind |-> "credential", cause |-> p]
                     /\ fpc' = "returned"
                     /\ UNCHANGED client
                ELSE \E out \in NewLLMClient3(p) :
                        /\ client' = out.client
                        /\ ferr' = out.err
                        /\ fpc' = IF out.err = Nil THEN "built" ELSE "returned"
    /\ UNCHANGED <<issued, cres>>
    /\ FacadeFrame

\* YTTCmd.Run and handleYTT after the client is built: the transcriber's
\* Transcribe issues CompleteStream calls through the client
Run_Transcribe ==
    /\ entry \in {"handleYTT", "getLLMClient"}
    /\ fpc = "built"
    /\ issued' = Append(issued, [op |-> "CompleteStream", client |-> client])
    /\ fpc' = "returned"
    /\ UNCHANGED <<client, ferr, cres>>
    /\ FacadeFrame

\* what the backend returns to a blocking call: an error, a response with
\* no choice / content block / candidate, a response with content
BackendAnswers == {"error", "empty", "content"}

CompleteFrame(p) ==
    /\ entry \in {"NewLLMClient1", "NewLLMClient2"}
    /\ fpc = "built"
    /\ client = p
    /\ issued' = Append(issued, [op |-> "Complete", client |-> client])
    /\ fpc' = "returned"
    /\ UNCHANGED <<client, ferr>>
    /\ FacadeFrame

\* what Complete returns when it takes the first choice / content block
\* without looking at their number: indexing an empty slice panics
Unchecked(p) ==
    {[answer |-> a,
      outcome |-> CASE a = "error" -> "error"
                    [] a = "empty" -> "panic"
                    [] OTHER -> "response",
      provider |-> p] : a \in BackendAnswers}

\* what Complete returns when it answers a response without content with
\* an error
Checked(p) ==
    {[answer |-> a,
      outcome |-> IF a = "content" THEN "response" ELSE "error",
      provider |-> p] : a \in BackendAnswers}

\* llms.go 518-538 (and 103-123): resp.Choices[0].Message.Content
OpenAIClient_Complete ==
    /\ CompleteFrame(OpenAI)
    /\ cres' \in Unchecked(OpenAI)

\* llms.go 594-618 (and 261-285): resp.Content[0].Text
ClaudeClient_Complete ==
    /\ CompleteFrame(Claude)
    /\ cres' \in Unchecked(Claude)

\* llms.go 684-701 (and 351-368): resp.Choices[0].Message.Content
GroqClient_Complete ==
    /\ CompleteFrame(Groq)
    /\ cres' \in Unchecked(Groq)

\* llms.go 188-207: "no content in response" when there is no candidate
\* or the first candidate has no part
GeminiClient_Complete ==
    /\ CompleteFrame(Gemini)
    /\ cres' \in Checked(Gemini)

\* llms.go 804-825: response.Content[0].Text
BedrockClient_Complete ==
    /\ CompleteFrame(Bedrock)
    /\ cres' \in Unchecked(Bedrock)

Entries == {"NewLLMClient1", "NewLLMClient2", "handleYTT", "getLLMClient"}

\* a direct call names any provider; the web and the command-line caller
\* name a model
InitFacade ==
    /\ entry \in Entries
    /\ config \in Configs
    /\ IF entry \in {"NewLLMClient1", "NewLLMClient2"}
       THEN provider \in Providers \cup {Unknown} /\ model = "gpt-4o"
       ELSE provider = OpenAI /\ model \in Models
    /\ InitPipeline({<<>>}, {0})
    /\ RetryIdle
    /\ FacadeIdle

NextFacade ==
    \/ NewLLMClient1_Call
    \/ NewLLMClient2_Call
    \/ handleYTT
    \/ YTTCmd_getLLMClient
    \/ Run_Transcribe
    \/ OpenAIClient_Complete
    \/ ClaudeClient_Complete
    \/ GroqClient_Complete
    \/ GeminiClient_Complete
    \/ BedrockClient_Complete

SpecFacade == InitFacade /\ [][NextFacade]_vars

\* ------------------------------------------- the chunking specification
\* every short text over Alphabet, and the nine-word transcript; the scaled
\* token limits, the limits of the table, and a limit of 6 tokens, whose
\* word budget is 4
SplitTexts == StringsUpTo(MaxTextLen) \cup {FoxText}
SplitLimits == (0..MaxTokens) \cup TableLimits \cup {6}

InitSplit == InitWith(SplitTexts, SplitLimits)

NextSplit == Transcribe_Start

SpecSplit == InitSplit /\ [][NextSplit]_vars

\* ------------------------------------------- the callback of handleYTT
LF == "\n"

\* strings.Split(s, sep) for a separator of one character
RECURSIVE SplitFrom(_, _, _)
SplitFrom(s, sep, cur) ==
    IF s = <<>> THEN <<cur>>
    ELSE IF Head(s) = sep
         THEN <<cur>> \o SplitFrom(Tail(s), sep, <<>>)
         ELSE SplitFrom(Tail(s), sep, Append(cur, Head(s)))

Split(s, sep) == SplitFrom(s, sep, <<>>)

RECURSIVE Concat(_)
Concat(pieces) == IF pieces = <<>> THEN <<>> ELSE Head(pieces) \o Concat(Tail(pieces))

\* "data: ", "event: done\ndata: \n\n"
DataPrefix == <<"d", "a", "t", "a", ":", " ">>
DoneType == <<"d", "o", "n", "e">>
MessageType == <<"m", "e", "s", "s", "a", "g", "e">>
DoneFrame == <<"e", "v", "e", "n", "t", ":", " ">> \o DoneType \o <<LF>> \o DataPrefix \o <<LF, LF>>

\* the callback writing "data: " before the first line only
RECURSIVE sseLines_FirstOnly(_, _)
sseLines_FirstOnly(lines, i) ==
    IF i > Len(lines) THEN <<>>
    ELSE (IF i > 1 THEN <<<<LF>>, lines[i]>> ELSE <<DataPrefix \o lines[i]>>)
            \o sseLines_FirstOnly(lines, i + 1)

\* lines 79-91: the writes of the loop over the lines of the text
RECURSIVE sseLines(_, _)
sseLines(lines, i) ==
    IF i > Len(lines) THEN <<>>
    ELSE (IF i > 1 THEN <<<<LF>>>> ELSE <<>>) \o <<DataPrefix \o lines[i]>>
            \o sseLines(lines, i + 1)

\* lines 76-106: the strings the callback writes, in the order of its writes
sseWrites(t, done) ==
    sseLines(Split(t, LF), 1) \o <<<<LF, LF>>>> \o (IF done THEN <<DoneFrame>> ELSE <<>>)

\* the first n elements of a sequence
FirstN(seq, n) == SubSeq(seq, 1, n)

\* The browser's EventSource, which the frontend reads the response with:
\* the field and the value of a line (one space after the colon is dropped)
RECURSIVE ColonAt(_, _)
ColonAt(line, i) ==
    IF i > Len(line) THEN 0 ELSE IF line[i] = ":" THEN i ELSE ColonAt(line, i + 1)

FieldOf(line) ==
    LET c == ColonAt(line, 1)
        v == IF c = 0 THEN <<>> ELSE SubSeq(line, c + 1, Len(line))
    IN  [name  |-> IF c = 0 THEN line ELSE SubSeq(line, 1, c - 1),
         value |-> IF v # <<>> /\ Head(v) = " " THEN Tail(v) ELSE v]

\* the events dispatched for the complete lines of the stream: a blank line
\* dispatches the event unless its data buffer is empty, the data lines are
\* joined with line feeds
RECURSIVE sseDispatch(_, _, _, _)
sseDispatch(lines, type, data, out) ==
    IF lines = <<>> THEN out
    ELSE LET l == Head(lines)
             f == FieldOf(l)
         IN  IF l = <<>>
             THEN sseDispatch(Tail(lines), <<>>, <<>>,
                      IF data = <<>> THEN out
                      ELSE Append(out, [event |-> IF type = <<>> THEN MessageType ELSE type,
                                        data  |-> FirstN(data, Len(data) - 1)]))
             ELSE IF Head(l) = ":"
             THEN sseDispatch(Tail(lines), type, data, out)
             ELSE IF f.name = <<"e", "v", "e", "n", "t">>
             THEN sseDispatch(Tail(lines), f.value, data, out)
             ELSE IF f.name = <<"d", "a", "t", "a">>
             THEN sseDispatch(Tail(lines), type, data \o f.value \o <<LF>>, out)
             ELSE sseDispatch(Tail(lines), type, data, out)

sseParse(bytes) ==
    LET lines == Split(bytes, LF)
    IN  sseDispatch(FirstN(lines, Len(lines) - 1), <<>>, <<>>, <<>>)

\* the events one invocation of the callback is meant to carry
sseEvents(t, done) ==
    <<[event |-> MessageType, data |-> t]>>
        \o (IF done THEN <<[event |-> DoneType, data |-> <<>>]>> ELSE <<>>)

\* ytt_web.go 76-106: one invocation of the callback, with the caller's text
\* and done flag; a write that fails returns its error, and the writes
\* before it have reached the response
handleYTT_callback ==
    /\ entry = "handleYTT"
    /\ sinkLog = <<>>
    /\ \E done \in BOOLEAN :
          LET writes == sseWrites(text, done)
          IN  /\ sinkLog' = <<[text |-> text, done |-> done]>>
              /\ \/ /\ wire' = Concat(writes)
                    /\ UNCHANGED result
                 \/ \E k \in 0..(Len(writes) - 1) :
                       /\ wire' = Concat(FirstN(writes, k))
                       /\ result' = [kind |-> "callback", cause |-> "write error"]
    /\ UNCHANGED <<inputVars, retryVars, facadeVars, prodVars, ctxVars, chunks, pc, idx,
                   calls, errRead, requests>>

SSEAlphabet == {"a", " ", ":", LF}
SSETexts == UNION {[1..k -> SSEAlphabet] : k \in 0..MaxSSELen}

InitSSE ==
    /\ provider = OpenAI
    /\ InitPipeline(SSETexts, {0})
    /\ RetryIdle
    /\ FacadeIdle
    /\ entry = "handleYTT"
    /\ model = "gpt-4o"
    /\ config = [c \in Credentials |-> "set"]

NextSSE == handleYTT_callback

SpecSSE == InitSSE /\ [][NextSSE]_vars

\* ------------------------------------------------ fair specification
\* The Go scheduler runs every runnable goroutine: Transcribe's steps and
\* the goroutine's deferred closes happen when they can, and an SDK call
\* bound to a cancelled context returns.  Nothing obliges the backend to
\* deliver its next event or to end its stream.
Fairness ==
    /\ WF_vars(Transcribe_Start)
    /\ WF_vars(Transcribe_Call)
    /\ WF_vars(Transcribe_Recv)
    /\ WF_vars(Transcribe_RangeEnd)
    /\ WF_vars(Transcribe_ReadErr)
    /\ WF_vars(deferClose)
    /\ \A p \in Providers : WF_vars(ctxDone(p))

SpecFair == Init /\ [][Next]_vars /\ Fairness

\* The two goroutines of a streaming call, each scheduled whenever it can
\* take a step.  Transcribe is the consumer.  The producer is the adapter's
\* goroutine reading a backend whose stream is finite: the backend answers
\* the request, delivers each of its events and then ends the stream,
\* normally or with an error.
Consumer ==
    \/ Transcribe_Start
    \/ Transcribe_Call
    \/ Transcribe_Recv
    \/ Transcribe_RangeEnd
    \/ Transcribe_ReadErr

Producer ==
    \/ OpenAIClient_CompleteStream
    \/ ClaudeClient_CompleteStream
    \/ GroqClient_CompleteStream
    \/ GeminiClient_CompleteStream
    \/ BedrockClient_CompleteStream
    \/ \E p \in Providers : ctxDone(p)
    \/ deferClose

FiniteStream == WF_vars(Consumer) /\ WF_vars(Producer)

\* runs over no chunk, one chunk and two chunks
FiniteTexts == {WordsText(k) : k \in {0, 1, 2}}

InitFinite == InitWith(FiniteTexts, PipelineLimits)

SpecFinite == InitFinite /\ [][Next]_vars /\ FiniteStream

\* ------------------------------------------------------------- helpers
CallChunks(c) == SelectSeq(emitted, LAMBDA e : e.call = c)
CallErrors(c) == SelectSeq(errLog, LAMBDA e : e.call = c)
DoneCount(c)  == Len(SelectSeq(CallChunks(c), LAMBDA e : e.done))

\* the goroutine of call c has closed its channels
CallClosed(c) == c < Len(calls) \/ (c = Len(calls) /\ prod = "closed")

SinkOf(e) == [text |-> e.text, done |-> e.done]

WordCount(chunk) == Len(Fields(chunk))

\* w = floor(t * 0.75)
IsFloorOf(w, t) == 4 * w <= 3 * t /\ 3 * t < 4 * (w + 1)

\* the outcome a caller can tell from Transcribe's return value, taking a
\* wrapped context error (errors.Is) as the cancelled outcome
Outcome ==
    IF result = Nil THEN "Done"
    ELSE IF result.kind = "llm" /\ result.cause = "context canceled" THEN "Cancelled"
    ELSE "Failed"

\* the state of the run: Streaming(i) from the call for chunk i until the
\* call for chunk i + 1 or the return
Phase ==
    CASE pc = "idle" -> [name |-> "Idle", i |-> 0]
      [] pc = "returned" -> [name |-> Outcome, i |-> Len(calls)]
      [] pc = "loop" /\ calls = <<>> -> [name |-> "Chunking", i |-> 0]
      [] OTHER -> [name |-> "Streaming", i |-> Len(calls)]

\* -------------------------------------------------------------- claims

\* C1: a CompleteStream call that has closed its channels without sending
\* an error emitted exactly one done=true chunk, and it was the last chunk
\* the call put on the chunk channel.
C1_StreamTerminal ==
    \A c \in 1..Len(calls) :
        (CallClosed(c) /\ CallErrors(c) = <<>>) =>
            LET E == CallChunks(c)
            IN  /\ Len(E) >= 1
                /\ E[Len(E)].done
                /\ \A i \in 1..(Len(E) - 1) : ~E[i].done

C1_Witness ==
    /\ prod = "closed"
    /\ CallErrors(Len(calls)) = <<>>
    /\ Len(CallChunks(Len(calls))) >= 2
    /\ DoneCount(Len(calls)) = 1

\* C2: no call yields both an error and a done=true chunk, and a call whose
\* stream broke after it had started sent exactly one error and no
\* done=true chunk.
C2_ErrorExclusive ==
    \A c \in 1..Len(calls) :
        CallClosed(c) =>
            /\ ~(CallErrors(c) # <<>> /\ DoneCount(c) > 0)
            /\ c \in failedCalls => (Len(CallErrors(c)) = 1 /\ DoneCount(c) = 0)

\* C3: once Transcribe has read an error from the error channel of chunk i
\* it has returned an error wrapping it, no call was issued for a later
\* chunk, and the sink has not been invoked since; no call is ever issued
\* after a call that sent an error, and a nil result means no error was sent.
C3_ErrorIsFatal ==
    /\ \A c \in 1..(Len(calls) - 1) : CallErrors(c) = <<>>
    /\ (pc = "returned" /\ result = Nil) => errLog = <<>>
    /\ pc = "loop" => errLog = <<>>
    /\ errRead.kind = "read" =>
            /\ pc = "returned"
            /\ result = [kind |-> "llm", cause |-> errRead.err]
            /\ errLog[Len(errLog)] = [call |-> errRead.chunk, err |-> errRead.err]
            /\ Len(calls) = errRead.chunk
            /\ \A k \in 1..Len(calls) : calls[k] <= errRead.chunk
            /\ Len(sinkLog) = errRead.sinkLen

C3_Witness ==
    /\ errRead.kind = "read"
    /\ errRead.chunk = 1
    /\ Len(chunks) >= 2
    /\ errRead.sinkLen >= 1

\* C4: a run whose context was cancelled while a chunk was streaming (the
\* goroutine of the call had not reached its done chunk) ends with the
\* Cancelled outcome,
\* never with Done or Failed; stated for the runs whose sink accepted every
\* invocation and whose backend did not fail on its own.
C4_CancelledOutcome ==
    (/\ pc = "returned"
     /\ result.kind # "callback"
     /\ failedCalls = {}
     /\ \A k \in 1..Len(errLog) : errLog[k].err = "context canceled"
     /\ cancelInfo.kind = "cancel"
     /\ cancelInfo.pc = "recv"
     /\ cancelInfo.prod \in {"open", "next", "send"}
     /\ ~cancelInfo.doneOffered)
        => Outcome = "Cancelled"

\* C5: once the context is cancelled, the goroutine of the in-flight
\* CompleteStream call eventually stops and closes its channels, whatever
\* the backend still has to deliver; stated for the runs in which Transcribe
\* keeps receiving (its sink has not failed).
C5_CancelStopsProducer ==
    (ctxCancelled /\ pc = "recv" /\ prod \in {"open", "next", "send"})
        ~> (prod = "closed" \/ result.kind = "callback")

\* C6: if the context is cancelled while the call of chunk i is in flight
\* and after it has delivered at least one partial chunk, CompleteStream is
\* never called for chunk i+1.
C6_NoCallAfterCancel ==
    (/\ cancelInfo.kind = "cancel"
     /\ cancelInfo.pc = "recv"
     /\ cancelInfo.prod \in {"next", "send"}
     /\ cancelInfo.partials >= 1)
        => Len(calls) <= cancelInfo.chunk

\* C7: the pairs passed to the sink are the chunks the calls put on the
\* chunk channel, one invocation per chunk and in the same order; the calls
\* are issued for chunks 1, 2, ... in order, and within a call the text
\* deltas reach the sink in the order the backend delivered them.
C7_SinkOrder ==
    /\ Len(sinkLog) <= Len(emitted)
    /\ Len(emitted) <= Len(sinkLog) + 1
    /\ prod # "send" => Len(sinkLog) = Len(emitted)
    /\ \A i \in 1..Len(sinkLog) : sinkLog[i] = SinkOf(emitted[i])
    /\ Len(calls) <= Len(chunks)
    /\ \A k \in 1..Len(calls) : calls[k] = k
    /\ \A i, j \in 1..Len(sinkLog) :
          (i < j /\ sinkLog[i].text # <<>> /\ sinkLog[j].text # <<>>) =>
              \/ sinkLog[i].text[1] < sinkLog[j].text[1]
              \/ /\ sinkLog[i].text[1] = sinkLog[j].text[1]
                 /\ sinkLog[i].text[2] < sinkLog[j].text[2]
    /\ (pc = "returned" /\ result = Nil) =>
          sinkLog = [i \in 1..Len(emitted) |-> SinkOf(emitted[i])]

C7_Witness ==
    /\ pc = "returned"
    /\ result = Nil
    /\ Len(calls) = 2
    /\ Len(sinkLog) = 4
    /\ sinkLog[1].text # <<>>
    /\ sinkLog[2].text # <<>>

\* the adapter answered every call with one text chunk and a done chunk
StubRun ==
    /\ errLog = <<>>
    /\ \A c \in 1..Len(calls) :
          CallClosed(c) =>
              LET E == CallChunks(c)
              IN  Len(E) = 2 /\ ~E[1].done /\ E[1].text # <<>> /\ E[2].done

\* C8: with n chunks, an adapter that answers every call with one text
\* chunk and a done chunk, and a sink that accepts every invocation,
\* Transcribe returns nil after exactly 2n sink invocations: for each chunk
\* in order its text with done=false, then done=true.
C8_StubRunSink ==
    (pc = "returned" /\ result.kind \notin {"callback", "source"} /\ StubRun) =>
        /\ result = Nil
        /\ Len(calls) = Len(chunks)
        /\ Len(sinkLog) = 2 * Len(chunks)
        /\ \A c \in 1..Len(chunks) :
              /\ sinkLog[2 * c - 1] = SinkOf(CallChunks(c)[1])
              /\ sinkLog[2 * c - 1].text[1] = c
              /\ sinkLog[2 * c] = [text |-> <<>>, done |-> TRUE]

C8_Witness ==
    /\ pc = "returned"
    /\ result = Nil
    /\ StubRun
    /\ Len(chunks) = 2
    /\ Len(sinkLog) = 4

\* C9: joining the chunks of splitText with single spaces gives the words
\* of the input, in order, separated by single spaces.
C9_RoundTrip ==
    pc = "loop" => Join(chunks, <<" ">>) = Join(Fields(text), <<" ">>)

\* C10: when the word budget is at least one word, which it is for every
\* model of the token-limit table, every chunk but the last has exactly
\* floor(limit * 0.75) words and the last has between 1 and that many.
C10_ChunkSize ==
    /\ tokenLimit \in TableLimits => 3 * tokenLimit >= 4
    /\ (pc = "loop" /\ 3 * tokenLimit >= 4) =>
          /\ \A k \in 1..(Len(chunks) - 1) : IsFloorOf(WordCount(chunks[k]), tokenLimit)
          /\ Len(chunks) >= 1 =>
                /\ WordCount(chunks[Len(chunks)]) >= 1
                /\ 4 * WordCount(chunks[Len(chunks)]) <= 3 * tokenLimit

C10_Witness ==
    /\ pc = "loop"
    /\ calcWordsFromTokens(tokenLimit) = 2
    /\ Len(chunks) = 2
    /\ WordCount(chunks[2]) = 1

\* C11: every chunk string is exactly its words joined by single spaces,
\* with no leading or trailing whitespace; the nine-word transcript "the
\* quick brown fox jumps over the lazy dog" with a word budget of 4 yields
\* "the quick brown fox", "jumps over the lazy", "dog".
C11_ChunkText ==
    pc = "loop" =>
        /\ \A k \in 1..Len(chunks) : chunks[k] = Join(Fields(chunks[k]), <<" ">>)
        /\ (text = FoxText /\ calcWordsFromTokens(tokenLimit) = 4) =>
              chunks = << Join(SubSeq(FoxWords, 1, 4), <<" ">>),
                          Join(SubSeq(FoxWords, 5, 8), <<" ">>),
                          FoxWords[9] >>

\* C12: chunking the empty string yields the empty chunk sequence, whatever
\* the model's token limit.
C12_EmptyInput ==
    (pc = "loop" /\ text = <<>>) => chunks = <<>>

C12_Witness ==
    /\ pc = "loop"
    /\ text = <<>>
    /\ tokenLimit = modelTokenLimits["gpt-4o"]

\* C13 as stated: an input with fewer words than the word budget
\* floor(limit * 0.75) gives exactly one chunk.
C13_FewWordsOneChunk ==
    (pc = "loop" /\ 4 * (WordCount(text) + 1) <= 3 * tokenLimit) => Len(chunks) = 1

\* C13 amended: an input with at least one word and fewer words than the
\* word budget gives exactly one chunk, which holds all its words; an input
\* without words gives no chunk.
C13_FewWordsOneChunk_Amended ==
    (pc = "loop" /\ 4 * (WordCount(text) + 1) <= 3 * tokenLimit) =>
        IF WordCount(text) = 0
        THEN chunks = <<>>
        ELSE Len(chunks) = 1 /\ Fields(chunks[1]) = Fields(text)

C13_Witness ==
    /\ pc = "loop"
    /\ WordCount(text) = 2
    /\ calcWordsFromTokens(tokenLimit) = 3
    /\ Len(chunks) = 1

\* C14: a call that the backend answers with k rate-limit errors and then
\* a response, and whose backoff did not run out of time, makes exactly k+1
\* attempts and returns without an error; a call whose first attempt fails
\* with a permanent error returns that error after exactly one attempt.
C14_RetryTransience ==
    /\ \A n \in 1..Len(callLog) :
          LET c == callLog[n]
          IN  /\ (c.script.final = Completed /\ ~c.exhausted) =>
                    /\ Len(c.attempts) = c.script.throttles + 1
                    /\ c.err = Nil
                    /\ \A j \in 1..c.script.throttles : c.attempts[j].resp = RateLimited
                    /\ c.attempts[Len(c.attempts)].resp = Completed
              /\ (c.script.throttles = 0 /\ c.script.final \in {ServerError, Transport}) =>
                    /\ Len(c.attempts) = 1
                    /\ c.err = c.script.final
                    /\ rpc = "returned"
                    /\ result = ChunkFailed(c.script.final)
    /\ (rpc \in {"attempt", "backoff"} /\ script.final # RateLimited) =>
          Len(attempts) <= script.throttles + 1

C14_Witness ==
    /\ Len(callLog) = 2
    /\ callLog[1].script = [throttles |-> 2, final |-> Completed]
    /\ Len(callLog[1].attempts) = 3
    /\ callLog[1].err = Nil
    /\ callLog[2].script = [throttles |-> 0, final |-> ServerError]
    /\ Len(callLog[2].attempts) = 1
    /\ result = ChunkFailed(ServerError)

\* C15: whenever the backend answers a blocking Complete call with a
\* response that has no choice / content block, the adapter returns an
\* error: it neither panics nor returns a response.
C15_EmptyResponse ==
    (cres # None /\ cres.answer = "empty") => cres.outcome = "error"

\* C16: NewLLMClient returns an unsupported-provider error exactly for the
\* provider identifiers outside {OpenAI, Claude, Groq, Gemini, Bedrock}, and
\* for each of the five the adapter it returns is that provider's.
C16_ProviderDispatch ==
    (entry \in {"NewLLMClient1", "NewLLMClient2"} /\ fpc # "idle") =>
        /\ ferr.kind = "unsupported" <=> provider \notin Providers
        /\ (provider \in Providers /\ ferr = Nil) => client = provider

\* C17: a client is built, and a Complete or CompleteStream call is issued
\* through it, only when every credential its provider requires is set: a
\* construction with a missing credential fails with a credential error.
C17_CredentialPrecondition ==
    /\ client # "none" => \A c \in cliRequired(client) : config[c] # ""
    /\ \A i \in 1..Len(issued) :
          \A c \in cliRequired(issued[i].client) : config[c] # ""

\* C18: the request of every call for a chunk after the first embeds the
\* text of the first chunk as well as the text of the call's own chunk.
C18_FirstChunkContext ==
    \A c \in 1..Len(requests) :
        c > 1 => {chunks[1], chunks[calls[c]]} \subseteq Embedded(requests[c])

\* C19: a failed attempt is retried if and only if its error is an HTTP 429
\* or an "overloaded" signal: after any other error no further attempt is
\* made, and after such an error the call makes another attempt unless the
\* backoff has run out of time.
C19_Classification ==
    \A n \in 1..Len(callLog) :
        LET c == callLog[n]
        IN  \A j \in 1..Len(c.attempts) :
                LET r == c.attempts[j].resp
                IN  r.kind # "ok" =>
                        IF r.status = 429 \/ r.overloaded
                        THEN j < Len(c.attempts) \/ c.exhausted
                        ELSE j = Len(c.attempts)

\* C20: no attempt starts after the maximum elapsed time, so a call makes
\* at most MaxElapsedTime + 1 attempts; a call all of whose attempts were
\* rate-limited returns, once the backoff stops, the error of its last
\* attempt, and RunE fails with it.
C20_RetryExhausted ==
    /\ \A j \in 1..Len(attempts) : attempts[j].at <= MaxElapsedTime
    /\ Len(attempts) <= MaxElapsedTime + 1
    /\ \A n \in 1..Len(callLog) :
          LET c == callLog[n]
          IN  (\A j \in 1..Len(c.attempts) : c.attempts[j].resp = RateLimited) =>
                 /\ c.exhausted
                 /\ c.err = RateLimited
                 /\ n = Len(callLog)
                 /\ rpc = "returned"
                 /\ result = ChunkFailed(RateLimited)

C20_Witness ==
    /\ rpc = "returned"
    /\ callLog # <<>>
    /\ callLog[Len(callLog)].exhausted
    /\ callLog[Len(callLog)].script.final = RateLimited
    /\ Len(callLog[Len(callLog)].attempts) >= 3
    /\ result = ChunkFailed(RateLimited)

\* C21: in the Claude and the Bedrock adapter every stream event whose type
\* is not the text delta's sends an error on the error channel and ends the
\* stream: after such an event the goroutine does not go on reading.
C21_UnknownEventIsError ==
    (provider \in {Claude, Bedrock} /\ lastEvent # None /\ lastEvent.type # TextDelta) =>
        /\ CallErrors(lastEvent.call) # <<>>
        /\ lastEvent.call = Len(calls) => prod \in {"exit", "errClosed", "closed"}

\* C22: a CompleteStream call is issued only when no producer goroutine is
\* active: the first call when none was started, the call for the next
\* chunk only after the goroutine of the current chunk has closed its error
\* channel and its chunk channel.
C22_OneProducer ==
    [][calls' # calls =>
          /\ prod = (IF calls = <<>> THEN "none" ELSE "closed")
          /\ pending = NoChunk
          /\ calls' = Append(calls, Len(calls) + 1)]_vars

C22_Witness ==
    /\ Len(calls) = 2
    /\ prod = "send"
    /\ CallChunks(1) # <<>>

\* the steps of the run's state machine that do not end in a failure: the
\* index advances by one, after the done chunk of the current chunk was
\* emitted, and Done comes after the done chunk of the last of the n chunks
PhaseAdvance(a, b) ==
    \/ a.name = "Idle" /\ b.name = "Chunking"
    \/ a.name = "Chunking" /\ b = [name |-> "Streaming", i |-> 1] /\ Len(chunks) >= 1
    \/ a.name = "Chunking" /\ b.name = "Done" /\ chunks = <<>>
    \/ /\ a.name = "Streaming"
       /\ b = [name |-> "Streaming", i |-> a.i + 1]
       /\ DoneCount(a.i) = 1
       /\ a.i < Len(chunks)
    \/ /\ a.name = "Streaming"
       /\ b.name = "Done"
       /\ a.i = Len(chunks)
       /\ \A c \in 1..Len(chunks) : DoneCount(c) = 1

\* C23 (as claimed): the run goes Idle, Chunking, Streaming(1), ...,
\* Streaming(n), Done, advancing by one after the done chunk of the current
\* chunk, and it fails (or is cancelled) only from a Streaming state and only
\* on an error of the adapter.
C23_StateMachine ==
    [][Phase' # Phase =>
          \/ PhaseAdvance(Phase, Phase')
          \/ /\ Phase.name = "Streaming"
             /\ Phase'.name \in {"Failed", "Cancelled"}
             /\ result'.kind = "llm"]_vars

\* C23 (amended): as above, but the run also fails from Idle when the
\* captions cannot be fetched, and from a Streaming state when the sink
\* returns an error.
C23_StateMachineWithSourceAndSink ==
    [][Phase' # Phase =>
          \/ PhaseAdvance(Phase, Phase')
          \/ /\ Phase.name = "Idle"
             /\ Phase'.name = "Failed"
             /\ result'.kind = "source"
          \/ /\ Phase.name = "Streaming"
             /\ Phase'.name \in {"Failed", "Cancelled"}
             /\ result'.kind \in {"llm", "callback"}
             /\ result'.kind = "llm" => errLog # <<>>
             /\ Phase'.i = Phase.i]_vars

C23_Witness ==
    /\ Phase = [name |-> "Failed", i |-> 2]
    /\ result.kind = "callback"
    /\ DoneCount(1) = 1

\* C24: with a backend whose streams are finite, the goroutine and
\* Transcribe do not deadlock: the error channel is empty whenever the
\* goroutine sends on it (the send does not block), and Transcribe
\* eventually returns, with both channels of every goroutine it started
\* closed unless its sink has failed.
C24_NoDeadlock ==
    /\ [][errLog' # errLog => (errChan = <<>> /\ Len(errChan') = 1)]_vars
    /\ <>(pc = "returned" /\ (prod \in {"none", "closed"} \/ result.kind = "callback"))

C24_Witness ==
    /\ pc = "returned"
    /\ result.kind = "llm"
    /\ Len(calls) = 2
    /\ prod = "closed"
    /\ CallErrors(2) # <<>>
    /\ errChan = <<>>

\* C25: every goroutine started by CompleteStream eventually terminates with
\* both channels closed, also when Transcribe has returned on a sink error.
C25_ProducerTerminates ==
    [](prod \in {"open", "next", "send", "exit", "errClosed"} => <>(prod = "closed"))

\* the events a browser gets from the callback's writes for the chunks
\* Transcribe has passed to it
RECURSIVE WebEventsFrom(_)
WebEventsFrom(log) ==
    IF log = <<>> THEN <<>>
    ELSE sseEvents(Head(log).text, Head(log).done) \o WebEventsFrom(Tail(log))

WebEvents == WebEventsFrom(sinkLog)

\* C26: when a run over n >= 1 chunks has succeeded, the response holds
\* exactly one done event, and it is the last event: no data message comes
\* after a done event.
C26_DoneOnce ==
    (pc = "returned" /\ result = Nil /\ Len(chunks) >= 1) =>
        LET E == WebEvents
        IN  /\ Len(SelectSeq(E, LAMBDA e : e.event = DoneType)) = 1
            /\ E[Len(E)].event = DoneType

\* C27: when the callback returns an error, Transcribe returns an error
\* wrapping it at once: from then on the callback is not invoked again, no
\* chunk is received from the stream (a chunk the goroutine offers stays
\* offered) and no CompleteStream call is issued.
C27_SinkErrorStops ==
    /\ [](result.kind = "callback" => pc = "returned")
    /\ [][result.kind = "callback" =>
              /\ result' = result
              /\ pc' = pc
              /\ sinkLog' = sinkLog
              /\ calls' = calls
              /\ prod = "send" => (prod' = "send" /\ pending' = pending)]_vars

C27_Witness ==
    /\ result.kind = "callback"
    /\ pc = "returned"
    /\ prod = "send"
    /\ ~pending.done
    /\ Len(calls) < Len(chunks)

\* C28: for a model that is not in the token-limit table (token limit and
\* word budget zero) splitText ends with one chunk for each word of the
\* input, in the order of the words: no chunk is empty, no chunk holds more
\* than one word.
C28_ZeroBudget ==
    (pc = "loop" /\ tokenLimit = 0) =>
        /\ calcWordsFromTokens(tokenLimit) = 0
        /\ Len(chunks) = WordCount(text)
        /\ \A k \in 1..Len(chunks) :
              /\ chunks[k] # <<>>
              /\ Fields(chunks[k]) = <<Fields(text)[k]>>

C28_Witness ==
    /\ pc = "loop"
    /\ tokenLimit = 0
    /\ Fields(text) = <<<<"a">>, <<"b">>, <<"a">>>>
    /\ Len(chunks) = 3

\* C29: a run whose transcript was obtained and has no words returns
\* normally, with no error and no panic on the first chunk, having issued no
\* LLM call and having invoked no sink.
C29_EmptyTranscript ==
    (/\ Fields(text) = <<>>
     /\ pc = "returned" \/ rpc = "returned"
     /\ result.kind \notin {"source", "setup"}) =>
        /\ result = Nil
        /\ requests = <<>>
        /\ calls = <<>>
        /\ callLog = <<>>
        /\ sinkLog = <<>>

\* C30: the bytes a successful invocation of the callback writes for a text
\* are one data message whose lines all start with "data: ", as many lines
\* as the text has, followed by the done event when done is set and by
\* nothing else; an EventSource reading them gets the text unchanged as the
\* data of the message.
C30_SSERoundTrip ==
    (sinkLog # <<>> /\ result = None) =>
        LET t == sinkLog[1].text
            lines == Split(wire, LF)
            n == Len(Split(t, LF))
        IN  /\ sseParse(wire) = sseEvents(t, sinkLog[1].done)
            /\ Len(lines) >= n + 1
            /\ \A i \in 1..n : /\ Len(lines[i]) >= Len(DataPrefix)
                               /\ FirstN(lines[i], Len(DataPrefix)) = DataPrefix
            /\ lines[n + 1] = <<>>

C30_Witness ==
    /\ sinkLog # <<>>
    /\ result = None
    /\ sinkLog[1].text = <<LF, "a", LF>>
    /\ sinkLog[1].done
    /\ Len(sseParse(wire)) = 2

TypeOK ==
    /\ pc \in {"idle", "loop", "recv", "readErr", "returned"}
    /\ prod \in {"none", "open", "next", "send", "exit", "errClosed", "closed"}
    /\ Len(errChan) <= 1
    /\ nEvents \in 0..MaxEvents
    /\ rpc \in {"idle", "loop", "attempt", "backoff", "returned"}
    /\ elapsed \in 0..(MaxElapsedTime + 1)
    /\ fpc \in {"idle", "built", "returned"}
    /\ client \in Providers \cup {"none"}
    /\ Len(requests) <= Len(chunks)
====
